---- MODULE Spec2Model ----
(***************************************************************************)
(* Bounded shoal model (src/alternative_models/shoal_model_bounded.py)     *)
(* and its data collectors (src/data_collectors.py).                       *)
(*                                                                         *)
(* Numbers.  The program computes in floating point; the model computes in *)
(* fixed point with resolution 1/Q: the integer n stands for the real n/Q. *)
(* Every arithmetic operation is rounded to the nearest representable      *)
(* value, comparisons of distances are exact (on squares), and a 0/0       *)
(* yields NaN, which is carried as a flag beside the vector.               *)
(*                                                                         *)
(* Library.  ContinuousSpace and RandomActivation are the Mesa classes the *)
(* source constructs at lines 152-156 (the grid_width/grid_height form of  *)
(* ContinuousSpace, torus=False).  Their operations are modelled at the    *)
(* places the source calls them.                                           *)
(***************************************************************************)
EXTENDS Integers, Sequences, FiniteSets, TLC

\* ---------------------------------------------------------------- bounds
Q == 10
Width == 4
Height == 3
Population == 2
MaxCalls == 2
MaxFish == 6

\* ------------------------------------------------------- program constants
K == 6

VARIABLES pos, velocity, vnan, grid, params,
          queue, done, pre, op, raised, steps, calls, model_vars, last, built,
          fish, metric

shoalVars == <<pos, velocity, vnan, grid, params,
               queue, done, pre, op, raised, steps, calls, model_vars, last, built>>
metricVars == <<fish, metric>>
vars == <<pos, velocity, vnan, grid, params,
          queue, done, pre, op, raised, steps, calls, model_vars, last, built,
          fish, metric>>

Agents == 1..Population
x_max == Width * Q
y_max == Height * Q

\* ------------------------------------------------------ vector arithmetic
Sgn(n) == IF n < 0 THEN -1 ELSE IF n > 0 THEN 1 ELSE 0
\* n/d rounded to the nearest integer (d > 0)
Rnd(n, d) == (2 * n + d) \div (2 * d)
Zero2 == <<0, 0>>
VAdd(u, v) == <<u[1] + v[1], u[2] + v[2]>>
VSub(u, v) == <<u[1] - v[1], u[2] - v[2]>>
VNeg(u) == <<-u[1], -u[2]>>
\* vector * scalar, both fixed point
VScale(u, k) == <<Rnd(u[1] * k, Q), Rnd(u[2] * k, Q)>>
\* vector / integer count
VDiv(u, n) == <<Rnd(u[1], n), Rnd(u[2], n)>>
Norm2(u) == u[1] * u[1] + u[2] * u[2]

RECURSIVE VSum(_, _)
VSum(S, f) ==
  IF S = {} THEN Zero2
  ELSE LET b == CHOOSE c \in S : TRUE
       IN VAdd(f[b], VSum(S \ {b}, f))

\* one component of u / ||u||, correctly rounded (Norm2(u) > 0)
UnitComp(c, s) ==
  Sgn(c) * (CHOOSE r \in 0..Q :
              /\ (r = 0 \/ (2 * r - 1) * (2 * r - 1) * s <= 4 * c * c * Q * Q)
              /\ 4 * c * c * Q * Q < (2 * r + 1) * (2 * r + 1) * s)

\* the division by the norm left out
NormalizeSkipped(u) == u

\* self.velocity /= np.linalg.norm(self.velocity)
Normalize(u) == <<UnitComp(u[1], Norm2(u)), UnitComp(u[2], Norm2(u))>>

\* ------------------------------------------------------- ContinuousSpace
get_heading(p1, p2) == VSub(p2, p1)
Dist2(p1, p2) == Norm2(VSub(p1, p2))

\* the upper bounds left unchecked
out_of_bounds_lower_only(p) == p[1] < 0 \/ p[2] < 0

out_of_bounds(p) == p[1] < 0 \/ p[1] >= x_max \/ p[2] < 0 \/ p[2] >= y_max

\* the agents the space holds within radius r of point p, the centre excluded
get_neighbors(P, G, p, r) ==
  {b \in G : Dist2(p, P[b]) <= r * r /\ Dist2(p, P[b]) > 0}

\* --------------------------------------------------------------- Fish
\* Fish.__init__ sets no attribute "tag"
HasTag(a) == FALSE

\* the comparison with the separation made inclusive
separate_inclusive(P, a, N, sep) ==
  LET close == {b \in N : Dist2(P[a], P[b]) <= sep * sep}
  IN VNeg(VSum(close, [b \in close |-> get_heading(P[a], P[b])]))

cohere(P, a, N) ==
  IF N = {} THEN Zero2
  ELSE VDiv(VSum(N, [b \in N |-> get_heading(P[a], P[b])]), Cardinality(N))

separate(P, a, N, sep) ==
  LET close == {b \in N : Dist2(P[a], P[b]) < sep * sep}
  IN VNeg(VSum(close, [b \in close |-> get_heading(P[a], P[b])]))

match_velocity(V, N) ==
  IF N = {} THEN Zero2
  ELSE VDiv(VSum(N, [b \in N |-> V[b]]), Cardinality(N))

\* a query answered from the state at the start of the round
VisibleSnapshot == pre

\* the space and the agents a neighbour query reads: the live ones
Visible == [pos |-> pos, velocity |-> velocity, grid |-> grid]

\* line 115-117: velocity + (cohere*cf + separate*sf + match*mf) / 2
Combined(S, a) ==
  LET N == get_neighbors(S.pos, S.grid, pos[a], params.vision)
      force == VAdd(VAdd(VScale(cohere(S.pos, a, N), params.cohere),
                         VScale(separate(S.pos, a, N, params.separation),
                                params.separate)),
                    VScale(match_velocity(S.velocity, N), params.match))
  IN VAdd(velocity[a], VDiv(force, 2))

\* Fish.step of agent a: the outcome as a record
FishStep(a) ==
  LET S == Visible
      upd == Combined(S, a)
      isnan == a \in vnan \/ Norm2(upd) = 0
      v == IF isnan THEN Zero2 ELSE Normalize(upd)
      new_pos == VAdd(pos[a], VScale(v, params.speed))
  IN IF isnan
     THEN \* NaN velocity, NaN target: move_agent takes the agent out of its
          \* cell and fails to compute the cell of the NaN point
          [velocity |-> Zero2, nan |-> TRUE, pos |-> pos[a], ingrid |-> FALSE,
           raised |-> IF a \in grid THEN "ValueError" ELSE "KeyError",
           combined |-> upd, target |-> Zero2, seen |-> S]
     ELSE IF out_of_bounds(new_pos)
     THEN [velocity |-> v, nan |-> FALSE, pos |-> pos[a], ingrid |-> a \in grid,
           raised |-> "OutOfBounds",
           combined |-> upd, target |-> new_pos, seen |-> S]
     ELSE [velocity |-> v, nan |-> FALSE, pos |-> new_pos, ingrid |-> a \in grid,
           raised |-> "none",
           combined |-> upd, target |-> new_pos, seen |-> S]

\* ----------------------------------------------------------- ShoalModel
\* the constructor arguments of the runs explored (fixed point)
ParamSets ==
  { [speed |-> Q, vision |-> 3 * Q, separation |-> 2 * Q,
     cohere |-> 0, separate |-> Q \div 2, match |-> 0],
    [speed |-> Q, vision |-> 3 * Q, separation |-> 2 * Q,
     cohere |-> Q \div 2, separate |-> Q, match |-> Q \div 2] }

\* make_agents: x = random() * x_max in [0, x_max), velocity in [-1, 1)^2
InitPos == { <<Q, Q>>, <<3 * Q, Q>>, <<2 * Q, 2 * Q>> }
InitVel == { <<Q - 1, 0>>, <<0, 0>>, <<-(Q \div 2), Q \div 2>> }

NoLast == [agent |-> 0, old |-> <<Zero2, Zero2>>, combined |-> Zero2,
           target |-> Zero2, seen |-> [pos |-> <<>>, velocity |-> <<>>, grid |-> {}],
           raised |-> "none"]
NoMetric == [nnd |-> [kind |-> "none", val |-> 0, k |-> 0],
             center_mass |-> [kind |-> "none", val |-> <<Zero2, Zero2>>],
             centroid |-> [kind |-> "none", val |-> <<Zero2, Zero2>>]]

Snapshot == [pos |-> pos, velocity |-> velocity, grid |-> grid]

\* The agents are drawn independently and every activation order is explored,
\* so a population is taken up to the renaming of its agents: by rising key.
InitKey(p, v) ==
  ((p[1] * (y_max + 1) + p[2]) * (2 * Q + 1) + (v[1] + Q)) * (2 * Q + 1) + (v[2] + Q)

Init ==
  /\ params \in ParamSets
  /\ pos \in [Agents -> InitPos]
  /\ velocity \in [Agents -> InitVel]
  /\ \A a \in Agents \ {Population} :
       InitKey(pos[a], velocity[a]) <= InitKey(pos[a + 1], velocity[a + 1])
  /\ vnan = {}
  /\ grid = Agents
  /\ queue = <<>>
  /\ done = <<>>
  /\ pre = [pos |-> pos, velocity |-> velocity, grid |-> grid]
  /\ op = "none"
  /\ raised = "none"
  /\ steps = 0
  /\ calls = 0
  /\ model_vars = <<>>
  /\ last = NoLast
  /\ built = [model |-> TRUE, space |-> TRUE, fish |-> Agents, scheduled |-> Agents]
  /\ fish = <<>>
  /\ metric = NoMetric

Perms == {s \in [1..Population -> Agents] : \A i, j \in 1..Population : s[i] = s[j] => i = j}

\* RandomActivation.step, entry: shuffle the agents
BeginRound(name) ==
  /\ \E s \in Perms : queue' = s
  /\ done' = <<>>
  /\ pre' = Snapshot
  /\ op' = name
  /\ raised' = "none"
  /\ last' = NoLast

\* self.schedule.step() called on its own
ScheduleStep ==
  /\ queue = <<>>
  /\ calls < MaxCalls
  /\ calls' = calls + 1
  /\ BeginRound("schedule.step")
  /\ UNCHANGED <<pos, velocity, vnan, grid, params, steps, model_vars, built>>
  /\ UNCHANGED metricVars

\* ShoalModel.step: datacollector.collect(self), then self.schedule.step()
ModelStep ==
  /\ queue = <<>>
  /\ calls < MaxCalls
  /\ calls' = calls + 1
  /\ IF \E a \in Agents : ~HasTag(a)
     THEN \* polar reads agent.tag: AttributeError, nothing is appended
          /\ raised' = "AttributeError"
          /\ op' = "ShoalModel.step"
          /\ done' = <<>>
          /\ pre' = Snapshot
          /\ last' = NoLast
          /\ UNCHANGED <<queue, model_vars>>
     ELSE \* each reporter's value of the state as it is now is appended
          /\ model_vars' = Append(model_vars, [state |-> Snapshot, rounds |-> steps])
          /\ BeginRound("ShoalModel.step")
  /\ UNCHANGED <<pos, velocity, vnan, grid, params, steps, built>>
  /\ UNCHANGED metricVars

\* RandomActivation.step, loop body: agent.step() of the next agent
Activate ==
  /\ queue # <<>>
  /\ \E a \in {Head(queue)} : \E r \in {FishStep(a)} :
        /\ velocity' = [velocity EXCEPT ![a] = r.velocity]
        /\ vnan' = IF r.nan THEN vnan \cup {a} ELSE vnan
        /\ pos' = [pos EXCEPT ![a] = r.pos]
        /\ grid' = IF r.ingrid THEN grid ELSE grid \ {a}
        /\ raised' = r.raised
        /\ last' = [agent |-> a, old |-> <<pos[a], velocity[a]>>,
                    combined |-> r.combined, target |-> r.target,
                    seen |-> r.seen, raised |-> r.raised]
        /\ done' = Append(done, a)
        /\ queue' = IF r.raised = "none" THEN Tail(queue) ELSE <<>>
        /\ steps' = IF r.raised = "none" /\ Tail(queue) = <<>>
                    THEN steps + 1 ELSE steps
  /\ UNCHANGED <<params, pre, op, calls, model_vars, built>>
  /\ UNCHANGED metricVars

Next == ScheduleStep \/ ModelStep \/ Activate

Spec == Init /\ [][Next]_vars

\* ------------------------------------------------------- data collectors
\* fish: the positions of the scheduled agents tagged "fish", in schedule
\* order (the comprehensions at data_collectors.py lines 81-82, 116-119 and
\* 156-157).  Results that are quotients of sums are kept as exact fractions
\* <<numerator, denominator>>; a zero denominator is NaN.

\* np.sqrt of a squared distance, rounded to the nearest representable value
Sqrt(n) ==
  CHOOSE r \in 0..(x_max + y_max) :
    /\ (r = 0 \/ (2 * r - 1) * (2 * r - 1) <= 4 * n)
    /\ 4 * n < (2 * r + 1) * (2 * r + 1)

get_distance(p1, p2) == Sqrt(Dist2(p1, p2))

RECURSIVE SortAsc(_)
SortAsc(s) ==
  IF s = <<>> THEN <<>>
  ELSE LET i == CHOOSE j \in 1..Len(s) : \A m \in 1..Len(s) : s[j] <= s[m]
       IN <<s[i]>> \o SortAsc(SubSeq(s, 1, i - 1) \o SubSeq(s, i + 1, Len(s)))

RECURSIVE SeqSum(_)
SeqSum(s) == IF s = <<>> THEN 0 ELSE Head(s) + SeqSum(Tail(s))

\* KDTree.query(x=me, k): the k smallest distances in rising order; the
\* neighbours the tree does not have are reported at infinite distance
KDQuery(F, me, k) ==
  LET d == SortAsc([j \in 1..Len(F) |-> get_distance(F[me], F[j])])
  IN [dist |-> SubSeq(d, 1, IF k < Len(d) THEN k ELSE Len(d)),
      missing |-> IF k > Len(d) THEN k - Len(d) ELSE 0]

nnd(F) ==
  LET q == [me \in 1..Len(F) |-> KDQuery(F, me, K)]
      \* dist.pop(0); sum(dist) / len(dist)
      mean == [me \in 1..Len(F) |-> Rnd(SeqSum(Tail(q[me].dist)), K - 1)]
  IN IF \E me \in 1..Len(F) : q[me].missing > 0
     THEN [kind |-> "inf", val |-> 0, k |-> K]
     ELSE [kind |-> "value", val |-> Rnd(SeqSum(mean), Len(F)), k |-> K]

\* centroid_dist, lines 116-121: (np.mean(pos_x), np.mean(pos_y))
centroid(F) ==
  [kind |-> "value",
   val |-> << <<SeqSum([i \in 1..Len(F) |-> F[i][1]]), Len(F)>>,
              <<SeqSum([i \in 1..Len(F) |-> F[i][2]]), Len(F)>> >>]

\* scipy.ndimage.center_of_mass of the Len(F) x 2 array of positions: the
\* array is the density; per axis, sum(value * index) / sum(value), the
\* indices being plain numbers (Q in fixed point)
center_mass(F) ==
  LET total == SeqSum([i \in 1..Len(F) |-> F[i][1] + F[i][2]])
      rows == SeqSum([i \in 1..Len(F) |-> (i - 1) * (F[i][1] + F[i][2])])
      cols == SeqSum([i \in 1..Len(F) |-> F[i][2]])
  IN [kind |-> IF total = 0 THEN "nan" ELSE "value",
      val |-> << <<rows * Q, total>>, <<cols * Q, total>> >>]

FishPos == { <<Q, 0>>, <<3 * Q, Q>>, <<2 * Q, 2 * Q>> }

RECURSIVE SeqsUpTo(_, _)
SeqsUpTo(S, n) ==
  IF n = 0 THEN {<<>>}
  ELSE LET shorter == SeqsUpTo(S, n - 1)
       IN shorter \cup {Append(s, e) : s \in {t \in shorter : Len(t) = n - 1}, e \in S}

MetricInit ==
  /\ params = CHOOSE p \in ParamSets : p.cohere = 0
  /\ pos = [a \in Agents |-> <<Q, Q>>]
  /\ velocity = [a \in Agents |-> <<Q - 1, 0>>]
  /\ vnan = {}
  /\ grid = Agents
  /\ queue = <<>>
  /\ done = <<>>
  /\ pre = [pos |-> pos, velocity |-> velocity, grid |-> grid]
  /\ op = "none"
  /\ raised = "none"
  /\ steps = 0
  /\ calls = 0
  /\ model_vars = <<>>
  /\ last = NoLast
  /\ built = [model |-> TRUE, space |-> TRUE, fish |-> Agents, scheduled |-> Agents]
  /\ fish \in SeqsUpTo(FishPos, MaxFish) \ {<<>>}
  /\ metric = NoMetric

CallNnd ==
  /\ metric.nnd.kind = "none"
  /\ metric' = [metric EXCEPT !.nnd = nnd(fish)]
  /\ UNCHANGED fish
  /\ UNCHANGED shoalVars

CallCentroid ==
  /\ metric.centroid.kind = "none"
  /\ metric' = [metric EXCEPT !.centroid = centroid(fish)]
  /\ UNCHANGED fish
  /\ UNCHANGED shoalVars

CallCenterMass ==
  /\ metric.center_mass.kind = "none"
  /\ metric' = [metric EXCEPT !.center_mass = center_mass(fish)]
  /\ UNCHANGED fish
  /\ UNCHANGED shoalVars

MetricNext == CallNnd \/ CallCentroid \/ CallCenterMass

MetricSpec == MetricInit /\ [][MetricNext]_vars

\* --------------------------------------------------------- construction
\* The arguments a caller may pass to ShoalModel(...): each of the six
\* checked quantities negative, zero or positive; the weights at one value.
Signs(v) == {-v, 0, v}
CtorArgs ==
  [population : (-1)..Population, width : Signs(x_max), height : Signs(y_max),
   speed : Signs(Q), vision : Signs(3 * Q), separation : Signs(2 * Q),
   cohere : {0}, separate : {Q \div 2}, match : {0}]

\* random.random() in [0, 1), as a fraction of 2: 0 or 1/2
Draws == {0, 1}
Scaled(r, w) == Rnd(r * w, 2)

\* ContinuousSpace.place_agent -> torus_adj -> out_of_bounds, for the space
\* the constructor was given
out_of_space(p, w, h) == p[1] < 0 \/ p[1] >= w \/ p[2] < 0 \/ p[2] >= h

BuildInit ==
  /\ params = CHOOSE p \in ParamSets : p.cohere = 0
  /\ pos = [a \in Agents |-> Zero2]
  /\ velocity = [a \in Agents |-> Zero2]
  /\ vnan = {}
  /\ grid = {}
  /\ queue = <<>>
  /\ done = <<>>
  /\ pre = [pos |-> pos, velocity |-> velocity, grid |-> grid]
  /\ op = "none"
  /\ raised = "none"
  /\ steps = 0
  /\ calls = 0
  /\ model_vars = <<>>
  /\ last = NoLast
  /\ built = [model |-> FALSE, space |-> FALSE, fish |-> {}, scheduled |-> {}]
  /\ fish = <<>>
  /\ metric = NoMetric

\* ShoalModel.__init__ with make_agents: the attributes, the schedule and the
\* space are set without any test of the arguments; then, agent by agent, a
\* position and a velocity are drawn, the Fish is constructed (Fish.__init__
\* tests nothing either), placed and scheduled.  The one failure is the
\* space's refusal of a point outside it, which ends the constructor with the
\* agents before it placed and the failing Fish constructed.
Construct ==
  /\ op = "none"
  /\ \E args \in CtorArgs :
     \E rx \in [Agents -> Draws], vel \in [Agents -> InitVel] :
       LET wanted == 1..args.population
           drawn == [a \in Agents |->
                      <<Scaled(rx[a], args.width), Scaled(rx[a], args.height)>>]
           bad == {a \in wanted : out_of_space(drawn[a], args.width, args.height)}
           stop == IF bad = {} THEN 0 ELSE CHOOSE a \in bad : \A b \in bad : a <= b
           placed == IF stop = 0 THEN wanted ELSE 1..(stop - 1)
           made == IF stop = 0 THEN wanted ELSE 1..stop
       IN /\ \A a \in Agents \ placed : rx[a] = 0 /\ vel[a] = Zero2
          /\ params' = args
          /\ pos' = [a \in Agents |-> IF a \in placed THEN drawn[a] ELSE Zero2]
          /\ velocity' = [a \in Agents |-> IF a \in made THEN vel[a] ELSE Zero2]
          /\ grid' = placed
          /\ raised' = IF stop = 0 THEN "none" ELSE "OutOfBounds"
          /\ built' = [model |-> stop = 0, space |-> TRUE,
                       fish |-> made, scheduled |-> placed]
  /\ op' = "ShoalModel.__init__"
  /\ UNCHANGED <<vnan, queue, done, pre, steps, calls, model_vars, last>>
  /\ UNCHANGED metricVars

BuildNext == Construct

BuildSpec == BuildInit /\ [][BuildNext]_vars

\* ================================================================ claims
InDomain(p) == 0 <= p[1] /\ p[1] <= x_max /\ 0 <= p[2] /\ p[2] <= y_max
Clamp1(c, hi) == IF c < 0 THEN 0 ELSE IF c > hi THEN hi ELSE c
Clamp(p) == <<Clamp1(p[1], x_max), Clamp1(p[2], y_max)>>
\* magnitude 1 to within one step of the resolution
IsUnit(v) == (Q - 1) * (Q - 1) <= Norm2(v) /\ Norm2(v) <= (Q + 1) * (Q + 1)
\* the last activation computed a finite target
Moved == last.agent # 0 /\ last.raised \in {"none", "OutOfBounds"}
\* a call of schedule.step or ShoalModel.step has ended
CallEnded == op # "none" /\ queue = <<>>
\* the round activated every agent and none raised
RoundCompleted == CallEnded /\ raised = "none" /\ Len(done) = Population
Earlier == {done[i] : i \in 1..(Len(done) - 1)}
StateOf(S, b) == <<S.pos[b], S.velocity[b], b \in S.grid>>

\* C1: in every reachable state every agent's position lies in
\* [0, width] x [0, height].
C1_PositionInDomain == \A a \in Agents : InDomain(pos[a])

\* C1 witness: an agent's step computed a target out of the space's bounds
\* and the agent is inside the domain afterwards.
C1_Witness ==
  /\ Moved
  /\ out_of_bounds(last.target)
  /\ InDomain(pos[last.agent])

\* C2: a Fish.step whose target pos + velocity * speed lies outside the
\* domain still commits the move, to the componentwise clamp of the target.
C2_ClampedAtBoundary ==
  (Moved /\ ~InDomain(last.target))
    => (last.raised = "none" /\ pos[last.agent] = Clamp(last.target))

\* C3: within one round the neighbour query of an agent reads, for every
\* other agent, the state that agent has after its own activation if it was
\* activated earlier in the round, and its state from before the round if not.
C3_SequentialVisibility ==
  last.agent # 0 =>
    \A b \in Agents \ {last.agent} :
      StateOf(last.seen, b) =
        IF b \in Earlier THEN StateOf(Snapshot, b) ELSE StateOf(pre, b)

\* C3 witness: the agent activated last had, among the neighbours it read, an
\* agent that had already moved in this round.
C3_Witness ==
  /\ last.agent # 0
  /\ \E b \in Earlier :
       /\ pos[b] # pre.pos[b]
       /\ b \in get_neighbors(last.seen.pos, last.seen.grid, last.old[1],
                              params.vision)

\* C4: after a completed Fish.step the agent's velocity has magnitude 1, and
\* after a completed round every agent's velocity has.
C4_UnitVelocity ==
  /\ (last.agent # 0 /\ last.raised = "none")
       => (last.agent \notin vnan /\ IsUnit(velocity[last.agent]))
  /\ RoundCompleted => \A a \in Agents : a \notin vnan /\ IsUnit(velocity[a])

\* C4 witness: a round completed in which an agent started from a velocity
\* that was not a unit vector.
C4_Witness ==
  /\ RoundCompleted
  /\ \E a \in Agents : ~IsUnit(pre.velocity[a])

\* C5: a call of ShoalModel.step completes without raising.
C5_StepDoesNotRaise == op = "ShoalModel.step" => raised = "none"

\* C6: a call of ShoalModel.step, once ended, has activated every agent
\* exactly once and left the set of agents in the space as it was.
C6_EveryAgentOnce ==
  (op = "ShoalModel.step" /\ queue = <<>>)
    => /\ Len(done) = Population
       /\ \A i, j \in 1..Len(done) : done[i] = done[j] => i = j
       /\ grid = Agents

\* Scenario B: two agents exactly separation apart and in sight, the same
\* velocity, cohere = match = 0, separate > 0
ScenarioB ==
  /\ Population = 2
  /\ calls = 1
  /\ Dist2(pre.pos[1], pre.pos[2]) = params.separation * params.separation
  /\ params.separation <= params.vision
  /\ pre.velocity[1] = pre.velocity[2]
  /\ params.cohere = 0 /\ params.match = 0 /\ params.separate > 0

\* C7: in scenario B the distance between the two agents after one step, in
\* which both agents moved, is strictly greater than before it.
C7_RepulsionAtSeparation ==
  (ScenarioB /\ RoundCompleted)
    => Dist2(pos[1], pos[Population]) > Dist2(pre.pos[1], pre.pos[Population])

\* C8: when the combined update of a Fish.step is the zero vector the agent
\* keeps its previous heading and moves along it; nothing is divided by zero.
C8_ZeroUpdateKeepsHeading ==
  (last.agent # 0 /\ last.combined = Zero2 /\ last.raised # "KeyError")
    => /\ last.agent \notin vnan
       /\ velocity[last.agent] = last.old[2]
       /\ last.raised \in {"none", "OutOfBounds"}

\* C9: nnd on fewer than 6 fish queries at most population - 1 neighbours or
\* signals insufficient data; it returns no number built from infinite
\* distances.
C9_SmallPopulationSignalled ==
  (metric.nnd.kind # "none" /\ Len(fish) < K)
    => \/ metric.nnd.kind = "insufficient"
       \/ (metric.nnd.kind = "value" /\ metric.nnd.k <= Len(fish))

\* a / b = c / d
RatEq(r, q) == r[1] * q[2] = q[1] * r[2]

\* C10: center_mass returns the mean position, the centroid that
\* centroid_dist computes from the same positions.
C10_CenterMassIsCentroid ==
  (metric.center_mass.kind # "none" /\ metric.centroid.kind # "none")
    => /\ metric.center_mass.kind = "value"
       /\ RatEq(metric.center_mass.val[1], metric.centroid.val[1])
       /\ RatEq(metric.center_mass.val[2], metric.centroid.val[2])

NonPositive(args) ==
  \/ args.population <= 0 \/ args.width <= 0 \/ args.height <= 0
  \/ args.speed <= 0 \/ args.vision <= 0 \/ args.separation <= 0

\* C11: a construction with a non-positive population, width, height, speed,
\* vision or separation signals an error and leaves no model, no space
\* content and no agent behind.
C11_NonPositiveRejected ==
  (op = "ShoalModel.__init__" /\ NonPositive(params))
    => /\ raised # "none"
       /\ ~built.model
       /\ built.fish = {} /\ built.scheduled = {} /\ grid = {}

\* what the last activated agent started from and read
LastPos == last.old[1]
LastN == get_neighbors(last.seen.pos, last.seen.grid, LastPos, params.vision)
LastClose ==
  {b \in LastN : Dist2(LastPos, last.seen.pos[b]) < params.separation * params.separation}
DisplacementTo(b) == VSub(last.seen.pos[b], LastPos)
MeanOver(S, f) == IF S = {} THEN Zero2 ELSE VDiv(VSum(S, f), Cardinality(S))

C13_RecordedBeforeMoving ==
  op = "ShoalModel.step" =>
    /\ model_vars # <<>>
    /\ model_vars[Len(model_vars)].state = pre
    /\ \A k \in 1..Len(model_vars) : model_vars[k].rounds = k - 1
====
